---- MODULE Spec2Model ----
(***************************************************************************)
(* Session status engine of the claude-code-ui daemon: the pure state      *)
(* machine (status-machine.ts), the SessionWatcher registry with its       *)
(* transitionSession side-effect layer, permission debounce timers, task   *)
(* ledger, stale check and log tailing (watcher.ts), and the hook          *)
(* dispatcher SessionWatcher.handleHook.                                   *)
(*                                                                         *)
(* One session id is modelled: every handler of the watcher reads and      *)
(* writes only the registry entry, ledgers and timer keyed by the session  *)
(* id it was called with.                                                  *)
(***************************************************************************)
EXTENDS Integers, Sequences, FiniteSets, TLC

VARIABLES
    exists,             \* sessions.has(sessionId)
    isWorktree,         \* session.isWorktree
    machineState,       \* session.machineState
    status,             \* session.status: [status, hasPendingToolUse]
    pendingPermission,  \* session.pendingPermission
    isHookDriven,       \* session.isHookDriven
    activeTools,        \* session.activeTools: tool-use ids, oldest first
    activeTasks,        \* session.activeTasks: tool-use ids of tasks, "compacting" included
    taskSignals,        \* taskSignals.get(sessionId): tool-use ids of running Task tools
    compactingSignals,  \* compactingSignals.has(sessionId)
    permissionTimers,   \* permissionTimers.get(sessionId): a timer id, or NoTimer
    timers,             \* the permission timeouts that are scheduled and not cleared
    entries,            \* session.entries: the log entries read so far
    bytePosition,       \* session.bytePosition: where the next tail read starts
    fileState,          \* the session's log file: "none", "present" or "gone" (unlinked)
    file,               \* the entries of the log file, oldest first
    inflight,           \* the handleFile calls suspended between their read and their store
    overlap,            \* handlers run since the oldest suspended handleFile call began
    emitted,            \* the "session" events emitted by the last handler, in order
    window,             \* history: what became of the last burst of PermissionRequests
    published,          \* history: the messageCount of the session's latest event
    worktree,           \* the session's worktree directory: "present" or "deleted"
    http,               \* the last request the HTTP server handled, with its response
    publisher,          \* the StreamServer: its publishSession calls and its stream
    debounce,           \* debounceTimers and the clock of the coalescing timers
    pure                \* the argument triple and result of one call of transition()

vars == << exists, isWorktree, machineState, status, pendingPermission, isHookDriven,
           activeTools, activeTasks, taskSignals, compactingSignals, permissionTimers,
           timers, entries, bytePosition, fileState, file, inflight, overlap,
           emitted, window, published, worktree, http, publisher, debounce, pure >>

logVars == << fileState, file >>
history == << window >>

-----------------------------------------------------------------------------
(* Bounds and input domains *)

MaxTimers == 2      \* timeouts that can be scheduled at once (the code keeps at most one)
MaxLog == 2         \* entries ever written to the log file
MaxReads == 1       \* handleFile calls that can be suspended at once
MaxOverlap == 2     \* handlers that run while one handleFile call is suspended
MaxTailReads == 2   \* handleFile calls suspended at once where calls overlap

TaskIds == {"TK1", "TK2"}
ToolIds == {"TB"} \cup TaskIds
TailIds == {"TK1"}
ToolNames == {"Bash", "Task"}
Unknown == "unknown"
NoTimer == 0
NoPermission == [toolName |-> "none", toolUseId |-> "none"]
None == "none"

ToolName(id) == IF id \in TaskIds THEN "Task" ELSE "Bash"

States == {"working", "tasking", "needs_approval", "waiting", "review", "idle"}
TableEvents == {"WORKING", "STOP", "ENDED", "PERMISSION_REQUEST",
                "TASK_STARTED", "TASKS_DONE", "WORKTREE_DELETED"}
Events == TableEvents \cup {"TOOL_ACTIVITY"}

-----------------------------------------------------------------------------
(* status-machine.ts *)

StopTarget_Idle(isWt) == IF isWt THEN "review" ELSE "idle"

StopTarget(isWt) == IF isWt THEN "review" ELSE "waiting"
EndedTarget_Idle(isWt) == "idle"

EndedTarget(isWt) == IF isWt THEN "review" ELSE "idle"

transition_WaitingIgnoresEnded(state, event, isWt) ==
    CASE state = "working" ->
            CASE event = "STOP" -> StopTarget(isWt)
              [] event = "ENDED" -> EndedTarget(isWt)
              [] event = "PERMISSION_REQUEST" -> "needs_approval"
              [] event = "TASK_STARTED" -> "tasking"
              [] OTHER -> state
      [] state = "tasking" ->
            CASE event = "STOP" -> StopTarget(isWt)
              [] event = "ENDED" -> EndedTarget(isWt)
              [] event = "PERMISSION_REQUEST" -> "needs_approval"
              [] event = "TASKS_DONE" -> "working"
              [] OTHER -> state
      [] state = "needs_approval" ->
            CASE event = "WORKING" -> "working"
              [] event = "STOP" -> StopTarget(isWt)
              [] event = "ENDED" -> EndedTarget(isWt)
              [] event = "PERMISSION_REQUEST" -> "needs_approval"
              [] OTHER -> state
      [] state = "waiting" ->
            CASE event = "WORKING" -> "working"
              [] event = "TOOL_ACTIVITY" -> "working"
              [] event = "PERMISSION_REQUEST" -> "needs_approval"
              [] OTHER -> state
      [] state = "review" ->
            CASE event = "WORKING" -> "working"
              [] event = "TOOL_ACTIVITY" -> "working"
              [] event = "WORKTREE_DELETED" -> "idle"
              [] OTHER -> state
      [] state = "idle" ->
            CASE event = "WORKING" -> "working"
              [] event = "TOOL_ACTIVITY" -> "working"
              [] OTHER -> state

transition_WaitingTakesStop(state, event, isWt) ==
    IF state = "waiting" /\ event = "STOP" THEN "idle"
    ELSE transition_WaitingIgnoresEnded(state, event, isWt)

transition(state, event, isWt) ==
    CASE state = "working" ->
            CASE event = "STOP" -> StopTarget(isWt)
              [] event = "ENDED" -> EndedTarget(isWt)
              [] event = "PERMISSION_REQUEST" -> "needs_approval"
              [] event = "TASK_STARTED" -> "tasking"
              [] OTHER -> state
      [] state = "tasking" ->
            CASE event = "STOP" -> StopTarget(isWt)
              [] event = "ENDED" -> EndedTarget(isWt)
              [] event = "PERMISSION_REQUEST" -> "needs_approval"
              [] event = "TASKS_DONE" -> "working"
              [] OTHER -> state
      [] state = "needs_approval" ->
            CASE event = "WORKING" -> "working"
              [] event = "STOP" -> StopTarget(isWt)
              [] event = "ENDED" -> EndedTarget(isWt)
              [] event = "PERMISSION_REQUEST" -> "needs_approval"
              [] OTHER -> state
      [] state = "waiting" ->
            CASE event = "WORKING" -> "working"
              [] event = "TOOL_ACTIVITY" -> "working"
              [] event = "ENDED" -> EndedTarget(isWt)
              [] event = "PERMISSION_REQUEST" -> "needs_approval"
              [] OTHER -> state
      [] state = "review" ->
            CASE event = "WORKING" -> "working"
              [] event = "TOOL_ACTIVITY" -> "working"
              [] event = "WORKTREE_DELETED" -> "idle"
              [] OTHER -> state
      [] state = "idle" ->
            CASE event = "WORKING" -> "working"
              [] event = "TOOL_ACTIVITY" -> "working"
              [] OTHER -> state

machineStateToPublishedStatus_NoPendingFlag(state) ==
    CASE state = "working" -> [status |-> "working", hasPendingToolUse |-> FALSE]
      [] state = "tasking" -> [status |-> "tasking", hasPendingToolUse |-> FALSE]
      [] state = "needs_approval" -> [status |-> "waiting", hasPendingToolUse |-> FALSE]
      [] state = "waiting" -> [status |-> "waiting", hasPendingToolUse |-> FALSE]
      [] state = "review" -> [status |-> "review", hasPendingToolUse |-> FALSE]
      [] state = "idle" -> [status |-> "idle", hasPendingToolUse |-> FALSE]

machineStateToPublishedStatus(state) ==
    CASE state = "working" -> [status |-> "working", hasPendingToolUse |-> FALSE]
      [] state = "tasking" -> [status |-> "tasking", hasPendingToolUse |-> FALSE]
      [] state = "needs_approval" -> [status |-> "waiting", hasPendingToolUse |-> TRUE]
      [] state = "waiting" -> [status |-> "waiting", hasPendingToolUse |-> FALSE]
      [] state = "review" -> [status |-> "review", hasPendingToolUse |-> FALSE]
      [] state = "idle" -> [status |-> "idle", hasPendingToolUse |-> FALSE]

-----------------------------------------------------------------------------
(* watcher.ts: the registry entry of the session and the maps keyed by its *)
(* id, gathered in one record that the handlers transform step by step.    *)

\* audit: the transition lines the handler has appended to the session's audit log
World ==
    [exists |-> exists, isWorktree |-> isWorktree, machineState |-> machineState,
     status |-> status, pendingPermission |-> pendingPermission,
     isHookDriven |-> isHookDriven, activeTools |-> activeTools,
     activeTasks |-> activeTasks, taskSignals |-> taskSignals,
     compactingSignals |-> compactingSignals, permissionTimers |-> permissionTimers,
     timers |-> timers, entries |-> entries, bytePosition |-> bytePosition,
     inflight |-> inflight, emitted |-> << >>, audit |-> << >>, ret |-> FALSE]

\* the messageCount a subscriber saw last: that of the latest event, none once the
\* session is deleted
LastPublished(before, events) ==
    IF events = << >> THEN before
    ELSE LET e == events[Len(events)]
         IN  IF e.type = "deleted" THEN 0 ELSE e.messageCount

Commit(w) ==
    /\ exists' = w.exists
    /\ isWorktree' = w.isWorktree
    /\ machineState' = w.machineState
    /\ status' = w.status
    /\ pendingPermission' = w.pendingPermission
    /\ isHookDriven' = w.isHookDriven
    /\ activeTools' = w.activeTools
    /\ activeTasks' = w.activeTasks
    /\ taskSignals' = w.taskSignals
    /\ compactingSignals' = w.compactingSignals
    /\ permissionTimers' = w.permissionTimers
    /\ timers' = w.timers
    /\ entries' = w.entries
    /\ bytePosition' = w.bytePosition
    /\ inflight' = w.inflight
    /\ emitted' = w.emitted
    /\ published' = LastPublished(published, w.emitted)

\* a handler that runs to completion, possibly while handleFile calls are suspended
Handle(w) ==
    /\ inflight # << >> => overlap < MaxOverlap
    /\ Commit(w)
    /\ overlap' = IF w.inflight = << >> THEN 0 ELSE overlap + 1

\* status.messageCount: user prompts, tool results and tool-use assistant messages
CountsAsMessage(kind) == kind \in {"prompt", "task_use", "tool_result"}

RECURSIVE MessageCount(_)
MessageCount(es) ==
    IF es = << >> THEN 0
    ELSE (IF CountsAsMessage(Head(es)) THEN 1 ELSE 0) + MessageCount(Tail(es))

\* this.emit("session", { type, session }): the listener sees the session as it is now
Emit(w, type) ==
    [w EXCEPT !.emitted = Append(@, [type |-> type,
                                     machineState |-> w.machineState,
                                     status |-> w.status.status,
                                     hasPendingToolUse |-> w.status.hasPendingToolUse,
                                     messageCount |-> MessageCount(w.entries),
                                     activeTasks |-> w.activeTasks,
                                     activeTools |-> w.activeTools])]

\* appendTransition(sessionId, from, to, meta)
appendTransition(w, from, to) ==
    [w EXCEPT !.audit = Append(@, [from |-> from, to |-> to])]

clearTimeout_Forgotten(ts, tid) == ts

clearTimeout(ts, tid) == {t \in ts : t.tid # tid}

ClearPermissionTimer_Noop(w) == w

\* clearTimeout(timer); this.permissionTimers.delete(sessionId)
ClearPermissionTimer(w) ==
    [w EXCEPT !.timers = clearTimeout(@, w.permissionTimers),
              !.permissionTimers = NoTimer]

ExitCancelsTimer(prevState) == prevState \in {"working", "tasking", "needs_approval"}

ClearsPendingPermission_Never(prevState, nextState) == FALSE

ClearsPendingPermission(prevState, nextState) ==
    prevState = "needs_approval" /\ nextState # "needs_approval"

AutoEscalates(nextState, tasks) == nextState = "working" /\ tasks # {}

RECURSIVE transitionSession(_, _)
transitionSession(w, event) ==
    IF ~w.exists THEN [w EXCEPT !.ret = FALSE]
    ELSE
    LET prevState == w.machineState
        nextState == transition(prevState, event, w.isWorktree)
    IN  IF nextState = prevState THEN [w EXCEPT !.ret = FALSE]
        ELSE
        LET w1 == IF ExitCancelsTimer(prevState) THEN ClearPermissionTimer(w) ELSE w
            w2 == IF ClearsPendingPermission(prevState, nextState)
                  THEN [w1 EXCEPT !.pendingPermission = NoPermission]
                  ELSE w1
            w3 == [appendTransition(w2, prevState, nextState) EXCEPT
                       !.machineState = nextState,
                       !.status = machineStateToPublishedStatus(nextState)]
            w4 == Emit(w3, "updated")
            w5 == IF AutoEscalates(nextState, w4.activeTasks)
                  THEN transitionSession(w4, "TASK_STARTED")
                  ELSE w4
        IN  [w5 EXCEPT !.ret = TRUE]

getActiveTasksForSession(tasks, compacting) ==
    tasks \cup (IF compacting THEN {"compacting"} ELSE {})

RefreshActiveTasks(w) ==
    [w EXCEPT !.activeTasks = getActiveTasksForSession(w.taskSignals, w.compactingSignals)]

-----------------------------------------------------------------------------
(* Permission debounce *)

FreeTimerId(ts) == CHOOSE n \in 1..(Cardinality(ts) + 1) : \A t \in ts : t.tid # n

\* the youngest active tool of that name, for a request that carries no tool-use id
ResolveToolUseId(tools, toolName, toolUseId) ==
    IF toolUseId # Unknown THEN toolUseId
    ELSE LET same == {i \in 1..Len(tools) : ToolName(tools[i]) = toolName}
         IN  IF same = {} THEN Unknown
             ELSE tools[CHOOSE i \in same : \A j \in same : j <= i]

\* if (existingTimer) clearTimeout(existingTimer); permissionTimers.set(sessionId, setTimeout(..))
SchedulePermission(w, toolName, toolUseId) ==
    LET kept == clearTimeout(w.timers, w.permissionTimers)
        new == [tid |-> FreeTimerId(kept), toolName |-> toolName,
                toolUseId |-> ResolveToolUseId(w.activeTools, toolName, toolUseId)]
    IN  [w EXCEPT !.isHookDriven = TRUE,
                  !.timers = kept \cup {new},
                  !.permissionTimers = new.tid]

PermissionTimerCallback_NoPending(w, t) ==
    transitionSession([w EXCEPT !.timers = @ \ {t}, !.permissionTimers = NoTimer],
                      "PERMISSION_REQUEST")

\* the timeout callback
PermissionTimerCallback(w, t) ==
    LET w1 == [w EXCEPT !.timers = @ \ {t}, !.permissionTimers = NoTimer]
        w2 == IF w1.exists
              THEN [w1 EXCEPT !.pendingPermission =
                                  [toolName |-> t.toolName, toolUseId |-> t.toolUseId]]
              ELSE w1
    IN  transitionSession(w2, "PERMISSION_REQUEST")

PendingTimer(w) == {t \in w.timers : t.tid = w.permissionTimers}

\* a completed tool cancels the debounce of its own request, or one whose tool is unknown
CancelMatches(t, toolUseId) == t.toolUseId = Unknown \/ t.toolUseId = toolUseId

SelectiveCancel(w, toolUseId) ==
    IF \E t \in PendingTimer(w) : CancelMatches(t, toolUseId)
    THEN ClearPermissionTimer(w)
    ELSE w

-----------------------------------------------------------------------------
(* SessionWatcher.handleHook, one operator per hook event *)

CreateFromHook(w, wt) ==
    LET w1 == [w EXCEPT !.exists = TRUE, !.isWorktree = wt,
                        !.machineState = "working",
                        !.status = machineStateToPublishedStatus("working"),
                        !.pendingPermission = NoPermission,
                        !.isHookDriven = TRUE,
                        !.activeTools = << >>,
                        !.entries = << >>,
                        !.bytePosition = 0]
    IN  Emit(appendTransition(RefreshActiveTasks(w1), "init", "working"), "created")

OnUserPromptSubmit(w, wt) ==
    IF ~w.exists THEN CreateFromHook(w, wt)
    ELSE transitionSession([w EXCEPT !.isHookDriven = TRUE], "WORKING")

AddTool(tools, id) ==
    IF \E i \in 1..Len(tools) : tools[i] = id THEN tools ELSE Append(tools, id)

RemoveTool(tools, id) == SelectSeq(tools, LAMBDA x : x # id)

OnTaskStarted_NoTransition(w, id) ==
    Emit(RefreshActiveTasks([w EXCEPT !.taskSignals = @ \cup {id}]), "updated")

\* the Task branch of PreToolUse: record the task, then TASK_STARTED
OnTaskStarted(w, id) ==
    LET w1 == RefreshActiveTasks([w EXCEPT !.taskSignals = @ \cup {id}])
        w2 == transitionSession(w1, "TASK_STARTED")
    IN  IF w2.ret THEN w2 ELSE Emit(w2, "updated")

OnPreToolUse(w, id) ==
    LET w1 == [w EXCEPT !.isHookDriven = TRUE, !.activeTools = AddTool(@, id)]
    IN  IF ToolName(id) = "Task" THEN OnTaskStarted(w1, id) ELSE Emit(w1, "updated")

OnTaskEnded_NeverDone(w, id) ==
    Emit(RefreshActiveTasks([w EXCEPT !.taskSignals = @ \ {id}]), "updated")

OnTaskEnded_AlwaysDone(w, id) ==
    LET w1 == RefreshActiveTasks([w EXCEPT !.taskSignals = @ \ {id}])
        w2 == transitionSession(w1, "TASKS_DONE")
    IN  IF w2.ret THEN w2 ELSE Emit(w2, "updated")

\* the Task branch of PostToolUse: drop the task, TASKS_DONE once none is left
OnTaskEnded(w, id) ==
    LET w1 == RefreshActiveTasks([w EXCEPT !.taskSignals = @ \ {id}])
    IN  IF w1.activeTasks = {}
        THEN LET w2 == transitionSession(w1, "TASKS_DONE")
             IN  IF w2.ret THEN w2 ELSE Emit(w2, "updated")
        ELSE Emit(w1, "updated")

OnPostToolUse(w, id) ==
    LET w1 == SelectiveCancel([w EXCEPT !.isHookDriven = TRUE], id)
        w2 == IF w1.machineState = "needs_approval"
              THEN transitionSession(w1, "WORKING")
              ELSE w1
        w3 == [w2 EXCEPT !.activeTools = RemoveTool(@, id)]
    IN  IF ToolName(id) = "Task" THEN OnTaskEnded(w3, id) ELSE Emit(w3, "updated")

OnStop(w) ==
    LET w1 == ClearPermissionTimer([w EXCEPT !.isHookDriven = TRUE])
        w2 == RefreshActiveTasks([w1 EXCEPT !.compactingSignals = FALSE])
    IN  transitionSession(w2, "STOP")

EndReasons == {"other", "prompt_input_exit"}

OnSessionEnd(w, reason) ==
    LET w1 == ClearPermissionTimer([w EXCEPT !.isHookDriven = TRUE])
    IN  IF w1.machineState = "waiting" /\ reason # "prompt_input_exit"
        THEN w1
        ELSE transitionSession(w1, "ENDED")

OnPreCompact(w) ==
    Emit(RefreshActiveTasks([w EXCEPT !.isHookDriven = TRUE, !.compactingSignals = TRUE]),
         "updated")

-----------------------------------------------------------------------------
(* Log tailing: the entries of the log file, reduced to what the watcher   *)
(* reads from them.                                                        *)

\* "prompt": a user entry with string content; "task_use": an assistant entry with a
\* Task tool_use block; "tool_result": the user entry carrying that Task's tool_result;
\* "turn_end": a system entry of subtype turn_duration
EntryKinds == {"prompt", "task_use", "tool_result", "turn_end"}
LogTaskId == "TK1"

logEntryToSessionEvent(kind) == IF kind = "turn_end" THEN "STOP" ELSE "WORKING"

RECURSIVE ReplayState(_, _, _)
ReplayState(es, state, isWt) ==
    IF es = << >> THEN state
    ELSE ReplayState(Tail(es), transition(state, logEntryToSessionEvent(Head(es)), isWt), isWt)

\* old: the last entry is more than STALE_TIMEOUT_MS in the past
replayEntries(es, isWt, old) ==
    LET st == ReplayState(es, "waiting", isWt)
    IN  [state |-> IF es # << >> /\ old /\ st \in {"working", "needs_approval"}
                   THEN transition(st, "STOP", isWt)
                   ELSE st,
         messageCount |-> MessageCount(es)]

\* the lines handleFile writes for the entries that change the state, oldest first
RECURSIVE ReplayLines(_, _, _)
ReplayLines(es, state, isWt) ==
    IF es = << >> THEN << >>
    ELSE LET next == transition(state, logEntryToSessionEvent(Head(es)), isWt)
         IN  (IF next # state THEN << [from |-> state, to |-> next] >> ELSE << >>)
             \o ReplayLines(Tail(es), next, isWt)

RECURSIVE PendingTaskIds(_, _)
PendingTaskIds(es, pending) ==
    IF es = << >> THEN pending
    ELSE PendingTaskIds(Tail(es),
                        CASE Head(es) = "task_use" -> pending \cup {LogTaskId}
                          [] Head(es) = "tool_result" -> pending \ {LogTaskId}
                          [] OTHER -> pending)

extractSessionInfo(es) == PendingTaskIds(es, {})

statusChanged(prev, next) ==
    prev.status # next.status \/ prev.hasPendingToolUse # next.hasPendingToolUse

tailJSONL(f, fromByte) ==
    [entries |-> SubSeq(f, fromByte + 1, Len(f)), newPosition |-> Len(f)]

\* the fields of the SessionState object the registry holds
SessionFields(w) ==
    [isWorktree |-> w.isWorktree, machineState |-> w.machineState, status |-> w.status,
     pendingPermission |-> w.pendingPermission, isHookDriven |-> w.isHookDriven,
     activeTools |-> w.activeTools, activeTasks |-> w.activeTasks,
     entries |-> w.entries, bytePosition |-> w.bytePosition]

NoSession ==
    [isWorktree |-> FALSE, machineState |-> "waiting",
     status |-> machineStateToPublishedStatus("waiting"),
     pendingPermission |-> NoPermission, isHookDriven |-> FALSE,
     activeTools |-> << >>, activeTasks |-> {}, entries |-> << >>, bytePosition |-> 0]

SetSession(w, f) ==
    [w EXCEPT !.isWorktree = f.isWorktree, !.machineState = f.machineState,
              !.status = f.status, !.pendingPermission = f.pendingPermission,
              !.isHookDriven = f.isHookDriven, !.activeTools = f.activeTools,
              !.activeTasks = f.activeTasks, !.entries = f.entries,
              !.bytePosition = f.bytePosition]

\* the registry drops or replaces the object `old`: the suspended handleFile calls
\* that captured it as existingSession keep it as it is now
Orphan(calls, old) ==
    [i \in 1..Len(calls) |->
        IF calls[i].existing = "live"
        THEN [calls[i] EXCEPT !.existing = "stale", !.snap = old]
        ELSE calls[i]]

RemoveAt(q, i) == SubSeq(q, 1, i - 1) \o SubSeq(q, i + 1, Len(q))

\* handleFile from the first statement after its last await to its end. call: the
\* suspended call; meta: extractMetadata found a cwd; wt: the git probe of a new
\* session's cwd; old: as in replayEntries; branchChanged: the branch probe differs
handleFileStore(w, call, meta, wt, old, branchChanged) ==
    LET hasExisting == call.existing # "none"
        es == IF call.existing = "live" THEN SessionFields(w) ELSE call.snap
        allEntries == IF hasExisting THEN es.entries \o call.newEntries
                      ELSE call.newEntries
    IN  IF ~hasExisting /\ ~meta THEN w
        ELSE
        LET isWt == IF hasExisting THEN es.isWorktree ELSE wt
            replay == replayEntries(allEntries, isWt, old)
            compacting == w.compactingSignals /\ call.newEntries = << >>
            machineState_ == IF ~hasExisting THEN replay.state
                             ELSE IF ~es.isHookDriven
                                  THEN ReplayState(call.newEntries, es.machineState, isWt)
                                  ELSE es.machineState
            status_ == machineStateToPublishedStatus(machineState_)
            activeTasks_ ==
                IF w.taskSignals # {} \/ compacting
                THEN getActiveTasksForSession(w.taskSignals, compacting)
                ELSE IF status_.status \in {"working", "tasking"}
                     THEN extractSessionInfo(allEntries)
                     ELSE {}
            session == [isWorktree |-> isWt, machineState |-> machineState_,
                        status |-> status_,
                        pendingPermission |-> IF hasExisting THEN es.pendingPermission
                                              ELSE NoPermission,
                        isHookDriven |-> hasExisting /\ es.isHookDriven,
                        activeTools |-> IF hasExisting THEN es.activeTools ELSE << >>,
                        activeTasks |-> activeTasks_,
                        entries |-> allEntries, bytePosition |-> call.newPosition]
            replaced == IF call.existing = "live"
                        THEN [es EXCEPT !.machineState = machineState_]
                        ELSE SessionFields(w)
            lines == IF hasExisting /\ ~es.isHookDriven
                     THEN ReplayLines(call.newEntries, es.machineState, isWt)
                     ELSE << >>
            w1 == [SetSession(w, session) EXCEPT
                       !.exists = TRUE,
                       !.audit = @ \o lines,
                       !.compactingSignals = compacting,
                       !.inflight = IF w.exists THEN Orphan(@, replaced) ELSE @]
            hasStatusChange == ~hasExisting \/ statusChanged(es.status, status_)
            hasNewMessages == hasExisting /\ replay.messageCount > MessageCount(es.entries)
            infoChanged == hasExisting
                           /\ Cardinality(es.activeTasks) # Cardinality(activeTasks_)
            w2 == IF machineState_ = "working" /\ activeTasks_ # {}
                  THEN transitionSession(w1, "TASK_STARTED")
                  ELSE IF machineState_ = "tasking" /\ activeTasks_ = {}
                       THEN transitionSession(w1, "TASKS_DONE")
                       ELSE w1
        IN  IF ~hasExisting
            THEN Emit(appendTransition(w2, "init", w2.machineState), "created")
            ELSE IF hasStatusChange \/ hasNewMessages \/ branchChanged \/ infoChanged
                 THEN Emit(w2, "updated")
                 ELSE w2

handleDelete_Silent(w) ==
    [SetSession(w, NoSession) EXCEPT !.exists = FALSE,
                                     !.inflight = Orphan(@, SessionFields(w))]

handleDelete(w) ==
    IF ~w.exists THEN w
    ELSE [SetSession(Emit(w, "deleted"), NoSession) EXCEPT
              !.exists = FALSE,
              !.inflight = Orphan(@, SessionFields(w))]

checkStaleSessions_IgnoresWorktree(w, old, reachable) ==
    IF w.exists /\ w.machineState = "working" /\ ~w.isHookDriven /\ old
    THEN transitionSession(w, "STOP")
    ELSE w

checkStaleSessions_StopsTasking(w, old, reachable) ==
    LET w1 == IF w.exists /\ w.machineState \in {"working", "tasking"}
                 /\ ~w.isHookDriven /\ old
              THEN transitionSession(w, "STOP")
              ELSE w
    IN  IF w1.exists /\ w1.machineState = "review" /\ w1.isWorktree /\ ~reachable
        THEN transitionSession(w1, "WORKTREE_DELETED")
        ELSE w1

checkStaleSessions_Removes(w, old, reachable) == IF old THEN handleDelete(w) ELSE w

\* old: lastActivityAt is more than 15 s in the past; reachable: access(worktreePath)
\* succeeds
checkStaleSessions(w, old, reachable) ==
    LET w1 == IF w.exists /\ w.machineState = "working" /\ ~w.isHookDriven /\ old
              THEN transitionSession(w, "STOP")
              ELSE w
    IN  IF w1.exists /\ w1.machineState = "review" /\ w1.isWorktree /\ ~reachable
        THEN transitionSession(w1, "WORKTREE_DELETED")
        ELSE w1

-----------------------------------------------------------------------------
(* The stream server (server.ts) *)

MaxPublished == 3   \* events handed to publishSession in one behaviour

-----------------------------------------------------------------------------
(* The coalescing timers of the log files (debouncedHandleFile).  Time is    *)
(* counted in ticks; a timeout runs at the tick of its deadline.             *)

Files == {"F1", "F2"}
debounceMs == 2     \* the coalescing delay, in ticks
MaxTime == 5        \* ticks of the clock
MaxBurst == 3       \* change notifications of one file between two of its reads
NoTimeout == -1

\* timers: debounceTimers; scheduled: the timeouts set and not cleared; reads: the
\* handleFile calls started; last, burst, served: the time of the file's last change
\* notification, the notifications since its last read, and those its last read served
NoDebounce ==
    [now |-> 0,
     timers |-> [f \in Files |-> NoTimeout],
     scheduled |-> {},
     reads |-> [f \in Files |-> 0],
     last |-> [f \in Files |-> NoTimeout],
     burst |-> [f \in Files |-> 0],
     served |-> [f \in Files |-> 0]]

debouncedHandleFile_NoClear(d, f) ==
    [d EXCEPT !.scheduled = @ \cup {[file |-> f, at |-> d.now + debounceMs]},
              !.timers[f] = d.now + debounceMs,
              !.last[f] = d.now,
              !.burst[f] = @ + 1]

debouncedHandleFile(d, f) ==
    LET existing == d.timers[f]
        kept == IF existing # NoTimeout
                THEN d.scheduled \ {[file |-> f, at |-> existing]}
                ELSE d.scheduled
        timer == [file |-> f, at |-> d.now + debounceMs]
    IN  [d EXCEPT !.scheduled = kept \cup {timer},
                  !.timers[f] = timer.at,
                  !.last[f] = d.now,
                  !.burst[f] = @ + 1]

\* the timeout callback: debounceTimers.delete(filepath); handleFile(filepath, "change")
DebounceCallback(d, t) ==
    [d EXCEPT !.scheduled = @ \ {t},
              !.timers[t.file] = NoTimeout,
              !.reads[t.file] = @ + 1,
              !.served[t.file] = d.burst[t.file],
              !.burst[t.file] = 0]

NoPublisher == [listening |-> FALSE, calls |-> << >>, emitted |-> 0, stream |-> << >>]

Operation(type) ==
    CASE type = "created" -> "insert"
      [] type = "deleted" -> "delete"
      [] OTHER -> "update"

-----------------------------------------------------------------------------
(* Actions *)

\* the "session" listener of the stream server, called by emit() for each event of
\* the handler: publishSession runs up to its first await
Listen(pub, events) ==
    IF ~pub.listening THEN pub
    ELSE [pub EXCEPT
            !.calls = @ \o [i \in 1..Len(events) |->
                               [seq |-> pub.emitted + i,
                                operation |-> Operation(events[i].type),
                                status |-> events[i].status,
                                hasPendingToolUse |-> events[i].hasPendingToolUse]],
            !.emitted = @ + Len(events)]

\* the variables that only the dedicated specifications change; the events of the
\* handler reach the listener of the stream server
KeepPure ==
    /\ UNCHANGED << pure, worktree, http, debounce >>
    /\ publisher' = Listen(publisher, emitted')

HookUserPromptSubmit ==
    /\ \E wt \in BOOLEAN : Handle(OnUserPromptSubmit(World, wt))
    /\ UNCHANGED << logVars, history >>
    /\ KeepPure

HookPermissionRequest(ids) ==
    /\ exists
    /\ Cardinality(clearTimeout(timers, permissionTimers)) < MaxTimers
    /\ \E id \in ids \cup {Unknown} :
         \E name \in ToolNames :
            /\ id # Unknown => name = ToolName(id)
            /\ Handle(SchedulePermission(World, name, id))
    /\ window' = IF PendingTimer(World) = {} THEN "open1" ELSE "openN"
    /\ UNCHANGED logVars
    /\ KeepPure

PermissionTimerFires ==
    /\ \E t \in timers : Handle(PermissionTimerCallback(World, t))
    /\ window' = CASE window = "open1" -> "fired1"
                    [] window = "openN" -> "firedN"
                    [] window = "cancelled" -> "firedAfterCancel"
                    [] OTHER -> "firedTwice"
    /\ UNCHANGED logVars
    /\ KeepPure

HookPreToolUse(id) ==
    /\ exists
    /\ Handle(OnPreToolUse(World, id))
    /\ UNCHANGED << logVars, history >>
    /\ KeepPure

CompletesPendingRequest(id) == \E t \in PendingTimer(World) : t.toolUseId = id

HookPostToolUse(id) ==
    /\ exists
    /\ Handle(OnPostToolUse(World, id))
    /\ window' = IF CompletesPendingRequest(id) THEN "cancelled" ELSE window
    /\ UNCHANGED logVars
    /\ KeepPure

HookPostToolUseFailure(id) ==
    /\ exists
    /\ Handle(OnPostToolUse(World, id))
    /\ window' = IF CompletesPendingRequest(id) THEN "cancelled" ELSE window
    /\ UNCHANGED logVars
    /\ KeepPure

HookStop ==
    /\ exists
    /\ Handle(OnStop(World))
    /\ UNCHANGED << logVars, history >>
    /\ KeepPure

HookSessionEnd ==
    /\ exists
    /\ \E reason \in EndReasons : Handle(OnSessionEnd(World, reason))
    /\ UNCHANGED << logVars, history >>
    /\ KeepPure

HookPreCompact ==
    /\ exists
    /\ Handle(OnPreCompact(World))
    /\ UNCHANGED << logVars, history >>
    /\ KeepPure

\* SessionStart, SubagentStart/Stop, TeammateIdle, TaskCompleted, Notification, and
\* any hook but UserPromptSubmit for a session the registry does not hold
HookLoggingOnly ==
    /\ Handle(World)
    /\ UNCHANGED << logVars, history >>
    /\ KeepPure

\* one pass of the periodic stale check
StaleCheck ==
    /\ \E old \in BOOLEAN : \E reachable \in BOOLEAN :
          Handle(checkStaleSessions(World, old, reachable))
    /\ UNCHANGED << logVars, history >>
    /\ KeepPure

\* the agent appends an entry to the log file, creating the file with its first entry
LogAppend ==
    /\ fileState \in {"none", "present"}
    /\ Len(file) < MaxLog
    /\ \E kind \in EntryKinds :
          /\ file = << >> => kind = "prompt"
          /\ file' = Append(file, kind)
    /\ fileState' = "present"
    /\ Commit(World)
    /\ UNCHANGED << overlap, history >>
    /\ KeepPure

NewCall(w, f) ==
    LET r == tailJSONL(f, IF w.exists THEN w.bytePosition ELSE 0)
    IN  [existing |-> IF w.exists THEN "live" ELSE "none", snap |-> NoSession,
         newEntries |-> r.entries, newPosition |-> r.newPosition]

\* handleFile up to its awaits (the "add" event, or the coalescing timer of "change"):
\* existingSession and fromByte are captured and the file is read
HandleFileStart ==
    /\ fileState = "present"
    /\ Len(inflight) < MaxReads
    /\ LET call == NewCall(World, file)
       IN  IF call.newEntries = << >> /\ exists
           THEN Commit(World)
           ELSE Commit([World EXCEPT !.inflight = Append(@, call)])
    /\ inflight # << >> => overlap < MaxOverlap
    /\ overlap' = IF inflight = << >> THEN 0 ELSE overlap + 1
    /\ UNCHANGED << logVars, history >>
    /\ KeepPure

\* handleFile is called again (the next "change" of the file) while an earlier call is
\* still suspended: nothing serialises the calls
HandleFileOverlap ==
    /\ fileState = "present"
    /\ inflight # << >>
    /\ Len(inflight) < MaxTailReads
    /\ overlap < MaxOverlap
    /\ LET call == NewCall(World, file)
       IN  IF call.newEntries = << >> /\ exists
           THEN Commit(World)
           ELSE Commit([World EXCEPT !.inflight = Append(@, call)])
    /\ overlap' = overlap + 1
    /\ UNCHANGED << logVars, history >>
    /\ KeepPure

HandleFileFinish ==
    /\ \E i \in 1..Len(inflight) :
         \E meta \in BOOLEAN : \E wt \in BOOLEAN : \E old \in BOOLEAN :
           \E branchChanged \in BOOLEAN :
             Commit(handleFileStore([World EXCEPT !.inflight = RemoveAt(@, i)],
                                    inflight[i], meta, wt, old, branchChanged))
    /\ overlap' = IF Len(inflight) = 1 THEN 0 ELSE overlap
    /\ UNCHANGED << logVars, history >>
    /\ KeepPure

\* the log file is unlinked and the watcher's "unlink" handler runs
LogUnlink ==
    /\ fileState = "present"
    /\ fileState' = "gone"
    /\ file' = << >>
    /\ Handle(handleDelete(World))
    /\ UNCHANGED history
    /\ KeepPure

-----------------------------------------------------------------------------
(* The HTTP server: POST /hook (hook-handler.ts) and GET /logs/:sessionId     *)
(* (log-server.ts), and the audit file paths of transition-log.ts.  A session *)
(* id is a sequence of characters; "a" stands for the letters and digits.     *)

IdChars == {"a", "_", "-", "/", "\\", ".", "nul"}
MaxIdLen == 2       \* length of the session ids drawn from the whole alphabet

IdsUpTo(n) == UNION {[1..k -> IdChars] : k \in 0..n}
TraversalIds == {<< ".", ".", "/" >>, << ".", ".", "/", "a" >>}
Ids == IdsUpTo(MaxIdLen) \cup TraversalIds
HookIds == IdsUpTo(1) \cup TraversalIds    \* the session ids posted to /hook
ModelledId == << "a" >>     \* the id of the session the registry variables describe
Missing == "missing"          \* a field the body does not have
MissingId == << "missing" >>  \* the session_id of a body that has none
Platforms == {"posix", "win32"}

\* /^[a-zA-Z0-9_-]+$/
SESSION_ID_RE(id) ==
    /\ Len(id) >= 1
    /\ \A i \in 1..Len(id) : id[i] \in {"a", "_", "-"}

\* req.url?.match(/^\/logs\/([^/]+)$/)
UrlMatch(id) ==
    /\ Len(id) >= 1
    /\ \A i \in 1..Len(id) : id[i] # "/"

LOGS_DIR == << << "home" >>, << ".claude" >>, << "session-logs" >> >>

Separators(platform) == IF platform = "win32" THEN {"/", "\\"} ELSE {"/"}

RECURSIVE Segments(_, _, _)
Segments(chars, seps, cur) ==
    IF chars = << >> THEN << cur >>
    ELSE IF Head(chars) \in seps
         THEN << cur >> \o Segments(Tail(chars), seps, << >>)
         ELSE Segments(Tail(chars), seps, Append(cur, Head(chars)))

\* path.normalize: empty and "." segments are dropped, ".." steps out of a directory
RECURSIVE Normalize(_, _)
Normalize(segs, acc) ==
    IF segs = << >> THEN acc
    ELSE LET sg == Head(segs)
         IN  Normalize(Tail(segs),
                       CASE sg = << >> \/ sg = << "." >> -> acc
                         [] sg = << ".", "." >> ->
                               IF acc = << >> THEN acc ELSE SubSeq(acc, 1, Len(acc) - 1)
                         [] OTHER -> Append(acc, sg))

\* join(LOGS_DIR, `${sessionId}.log`)
LogPath(id, platform) ==
    Normalize(LOGS_DIR \o Segments(Append(id, ".log"), Separators(platform), << >>), << >>)

InsideLogsDir(path) ==
    /\ Len(path) > Len(LOGS_DIR)
    /\ SubSeq(path, 1, Len(LOGS_DIR)) = LOGS_DIR

NoFile == << >>

\* the file a filesystem call on that path reaches: a path holding a NUL byte is refused
FileReached(id, platform) ==
    IF \E i \in 1..Len(id) : id[i] = "nul" THEN NoFile ELSE LogPath(id, platform)

HookEventNames ==
    {"SessionStart", "UserPromptSubmit", "PermissionRequest", "PreToolUse", "PostToolUse",
     "PostToolUseFailure", "Stop", "SessionEnd", "PreCompact", "Notification",
     "SubagentStart", "SubagentStop", "TeammateIdle", "TaskCompleted"}

HookPayloadSchema_AnySessionId(p) == p.hook_event_name \in HookEventNames

\* hook_event_name: z.enum(HookEventNames), session_id: z.string().min(1)
HookPayloadSchema(p) ==
    /\ p.hook_event_name \in HookEventNames
    /\ p.session_id # MissingId
    /\ Len(p.session_id) >= 1

\* SessionWatcher.handleHook for the session of the registry variables; the tool of a
\* tool hook is the one task of the log
handleHook(w, p) ==
    LET e == p.hook_event_name
    IN  CASE e = "UserPromptSubmit" -> OnUserPromptSubmit(w, p.wt)
          [] ~w.exists -> w
          [] e = "PermissionRequest" -> SchedulePermission(w, ToolName(LogTaskId), LogTaskId)
          [] e = "PreToolUse" -> OnPreToolUse(w, LogTaskId)
          [] e \in {"PostToolUse", "PostToolUseFailure"} -> OnPostToolUse(w, LogTaskId)
          [] e = "Stop" -> OnStop(w)
          [] e = "SessionEnd" -> OnSessionEnd(w, p.reason)
          [] e = "PreCompact" -> OnPreCompact(w)
          [] OTHER -> w

Rejected(w, code) == [w |-> w, code |-> code, dispatched |-> FALSE, file |-> NoFile]

\* handleHookRequest. json: JSON.parse succeeds; throws: where handleHook raises an
\* exception ("no", "early": before it acts, "late": after it has acted); the audit
\* file is the one appendHookEvent appends the hook's line to
handleHookRequest(w, p) ==
    IF ~p.json THEN Rejected(w, 400)
    ELSE IF ~HookPayloadSchema(p) THEN Rejected(w, 400)
    ELSE LET mine == p.session_id = ModelledId
             done == IF mine /\ p.throws # "early" THEN handleHook(w, p) ELSE w
         IN  [w |-> done,
              code |-> IF p.throws = "no" THEN 200 ELSE 500,
              dispatched |-> TRUE,
              file |-> IF p.throws = "early" THEN NoFile
                       ELSE FileReached(p.session_id, p.platform)]

serveLogs_NoIdCheck(method, id, platform, readable) ==
    IF method = "OPTIONS" THEN [code |-> 204, file |-> NoFile]
    ELSE IF method # "GET" THEN [code |-> 405, file |-> NoFile]
    ELSE IF ~UrlMatch(id) THEN [code |-> 404, file |-> NoFile]
    ELSE [code |-> IF readable THEN 200 ELSE 404, file |-> FileReached(id, platform)]

\* the request handler of startLogServer for a URL /logs/<id>. readable: access(filepath,
\* R_OK) succeeds
serveLogs(method, id, platform, readable) ==
    IF method = "OPTIONS" THEN [code |-> 204, file |-> NoFile]
    ELSE IF method # "GET" THEN [code |-> 405, file |-> NoFile]
    ELSE IF ~UrlMatch(id) THEN [code |-> 404, file |-> NoFile]
    ELSE IF ~SESSION_ID_RE(id) THEN [code |-> 400, file |-> NoFile]
    ELSE [code |-> IF readable THEN 200 ELSE 404, file |-> FileReached(id, platform)]

NoRequest ==
    [kind |-> "none", method |-> "none", json |-> FALSE, hook_event_name |-> Missing,
     session_id |-> MissingId, wt |-> FALSE, reason |-> "other", throws |-> "no",
     platform |-> "posix", readable |-> FALSE, code |-> 0, dispatched |-> FALSE,
     file |-> NoFile]

HookRequest(json, e, id, wt, reason, throws, platform) ==
    [NoRequest EXCEPT !.kind = "hook", !.method = "POST", !.json = json,
                      !.hook_event_name = e, !.session_id = id, !.wt = wt,
                      !.reason = reason, !.throws = throws, !.platform = platform]

\* the bodies posted to /hook: one that is not JSON; for the session of the registry,
\* every event name, an unknown one and none; for UserPromptSubmit, every session id
\* and none; handlers that raise
HookRequests ==
    {HookRequest(FALSE, Missing, MissingId, FALSE, "other", "no", "posix")}
    \cup {HookRequest(TRUE, e, ModelledId, FALSE, "other", "no", "posix") :
             e \in HookEventNames \cup {"NotAHook", Missing}}
    \cup {HookRequest(TRUE, "UserPromptSubmit", ModelledId, TRUE, "other", "no", "posix"),
          HookRequest(TRUE, "SessionEnd", ModelledId, FALSE, "prompt_input_exit", "no",
                      "posix")}
    \cup {HookRequest(TRUE, "UserPromptSubmit", id, FALSE, "other", "no", pf) :
             id \in HookIds \cup {MissingId}, pf \in Platforms}
    \cup {HookRequest(TRUE, e, ModelledId, FALSE, "other", t, "posix") :
             e \in {"UserPromptSubmit", "Stop"}, t \in {"early", "late"}}

\* POST /hook
PostHook ==
    /\ \E p \in HookRequests :
         LET r == handleHookRequest(World, p)
         IN  /\ http' = [p EXCEPT !.code = r.code, !.dispatched = r.dispatched,
                                  !.file = r.file]
             /\ IF r.dispatched
                THEN Handle(r.w)
                ELSE UNCHANGED << exists, isWorktree, machineState, status,
                                  pendingPermission, isHookDriven, activeTools,
                                  activeTasks, taskSignals, compactingSignals,
                                  permissionTimers, timers, entries, bytePosition,
                                  inflight, overlap, emitted, published >>
    /\ UNCHANGED << logVars, history, pure, worktree, debounce >>
    /\ publisher' = Listen(publisher, emitted')

\* GET, POST or OPTIONS on /logs/<id>
GetLogs ==
    /\ \E method \in {"GET", "POST", "OPTIONS"} : \E id \in Ids :
         \E pf \in Platforms : \E readable \in BOOLEAN :
            LET r == serveLogs(method, id, pf, readable)
            IN  http' = [NoRequest EXCEPT !.kind = "logs", !.method = method,
                                          !.session_id = id, !.platform = pf,
                                          !.readable = readable, !.code = r.code,
                                          !.file = r.file]
    /\ UNCHANGED << exists, isWorktree, machineState, status, pendingPermission,
                    isHookDriven, activeTools, activeTasks, taskSignals,
                    compactingSignals, permissionTimers, timers, entries, bytePosition,
                    inflight, overlap, emitted, published, logVars, history, pure,
                    worktree, publisher, debounce >>

-----------------------------------------------------------------------------
(* One call of transition() on arguments drawn from the whole domain *)

NoCall == [state |-> None, event |-> None, wt |-> FALSE, result |-> None]

ApplyTransition ==
    /\ pure.result = None
    /\ pure.state \in States
    /\ pure' = [pure EXCEPT !.result = transition(pure.state, pure.event, pure.wt)]
    /\ UNCHANGED << exists, isWorktree, machineState, status, pendingPermission,
                    isHookDriven, activeTools, activeTasks, taskSignals,
                    compactingSignals, permissionTimers, timers, entries, bytePosition,
                    fileState, file, inflight, overlap, emitted, window, published,
                    worktree, http, publisher, debounce >>

RegistryInit ==
    /\ exists = FALSE
    /\ isWorktree = NoSession.isWorktree
    /\ machineState = NoSession.machineState
    /\ status = NoSession.status
    /\ pendingPermission = NoSession.pendingPermission
    /\ isHookDriven = NoSession.isHookDriven
    /\ activeTools = NoSession.activeTools
    /\ activeTasks = NoSession.activeTasks
    /\ entries = NoSession.entries
    /\ bytePosition = NoSession.bytePosition
    /\ taskSignals = {}
    /\ compactingSignals = FALSE
    /\ permissionTimers = NoTimer
    /\ timers = {}
    /\ fileState = "none"
    /\ file = << >>
    /\ inflight = << >>
    /\ overlap = 0
    /\ emitted = << >>
    /\ window = "none"
    /\ published = 0
    /\ worktree = "present"
    /\ http = NoRequest
    /\ publisher = NoPublisher
    /\ debounce = NoDebounce

InitPure ==
    /\ RegistryInit
    /\ pure \in [state : States, event : Events, wt : BOOLEAN, result : {None}]

SpecPure == InitPure /\ [][ApplyTransition]_vars

-----------------------------------------------------------------------------
Init ==
    /\ RegistryInit
    /\ pure = NoCall

\* the hook dispatcher, the permission timer and the stale check, on three tools
NextHooks ==
    \/ HookUserPromptSubmit
    \/ HookPermissionRequest(ToolIds)
    \/ PermissionTimerFires
    \/ \E id \in ToolIds : HookPreToolUse(id)
    \/ \E id \in ToolIds : HookPostToolUse(id)
    \/ \E id \in ToolIds : HookPostToolUseFailure(id)
    \/ HookStop
    \/ HookSessionEnd
    \/ HookPreCompact
    \/ HookLoggingOnly
    \/ StaleCheck

SpecHooks == Init /\ [][NextHooks]_vars

\* the whole watcher, on the one tool the log mentions
Next ==
    \/ HookUserPromptSubmit
    \/ HookPermissionRequest(TailIds)
    \/ PermissionTimerFires
    \/ \E id \in TailIds : HookPreToolUse(id)
    \/ \E id \in TailIds : HookPostToolUse(id)
    \/ \E id \in TailIds : HookPostToolUseFailure(id)
    \/ HookStop
    \/ HookSessionEnd
    \/ HookPreCompact
    \/ HookLoggingOnly
    \/ StaleCheck
    \/ LogAppend
    \/ HandleFileStart
    \/ HandleFileFinish
    \/ LogUnlink

Spec == Init /\ [][Next]_vars

\* log tailing with overlapping handleFile calls, and the hooks and timers that create
\* a session and end its turn
NextTail ==
    \/ HookUserPromptSubmit
    \/ HookPermissionRequest(TailIds)
    \/ PermissionTimerFires
    \/ HookStop
    \/ HookSessionEnd
    \/ StaleCheck
    \/ LogAppend
    \/ HandleFileStart
    \/ HandleFileOverlap
    \/ HandleFileFinish
    \/ LogUnlink

SpecTail == Init /\ [][NextTail]_vars

\* the worktree directory of the session is deleted
WorktreeRemoved ==
    /\ exists
    /\ isWorktree
    /\ worktree = "present"
    /\ worktree' = "deleted"
    /\ Handle(World)
    /\ UNCHANGED << logVars, history, pure, http, debounce >>
    /\ publisher' = Listen(publisher, emitted')

\* one pass of the periodic stale check, probing the worktree directory as it is
StaleCheckPass ==
    /\ \E old \in BOOLEAN :
          Handle(checkStaleSessions(World, old, worktree = "present"))
    /\ UNCHANGED << logVars, history >>
    /\ KeepPure

\* the hooks of a turn and the periodic stale check, which the daemon's interval timer
\* keeps running
NextReview ==
    \/ HookUserPromptSubmit
    \/ HookPermissionRequest(TailIds)
    \/ PermissionTimerFires
    \/ \E id \in TailIds : HookPreToolUse(id)
    \/ \E id \in TailIds : HookPostToolUse(id)
    \/ HookStop
    \/ HookSessionEnd
    \/ WorktreeRemoved
    \/ StaleCheckPass

SpecReview == Init /\ [][NextReview]_vars /\ WF_vars(StaleCheckPass)

\* the stream server is started and its listener registered on the watcher
Attach ==
    /\ ~publisher.listening
    /\ publisher' = [publisher EXCEPT !.listening = TRUE]
    /\ UNCHANGED << exists, isWorktree, machineState, status, pendingPermission,
                    isHookDriven, activeTools, activeTasks, taskSignals,
                    compactingSignals, permissionTimers, timers, entries, bytePosition,
                    inflight, overlap, emitted, published, logVars, history, pure,
                    worktree, http, debounce >>

\* the summarizer calls of one publishSession call return: the snapshot is built from
\* the session object the call was given and appended to the stream
PublishDone ==
    /\ \E i \in 1..Len(publisher.calls) :
          LET call == publisher.calls[i]
              session == [seq |-> call.seq, operation |-> call.operation,
                          status |-> status.status,
                          hasPendingToolUse |-> status.hasPendingToolUse,
                          emittedStatus |-> call.status,
                          emittedPending |-> call.hasPendingToolUse]
          IN  publisher' = [publisher EXCEPT !.calls = RemoveAt(@, i),
                                             !.stream = Append(@, session)]
    /\ UNCHANGED << exists, isWorktree, machineState, status, pendingPermission,
                    isHookDriven, activeTools, activeTasks, taskSignals,
                    compactingSignals, permissionTimers, timers, entries, bytePosition,
                    inflight, overlap, emitted, published, logVars, history, pure,
                    worktree, http, debounce >>

\* the stream server attached to a watcher that receives the hooks of a turn; the
\* session object is created once and changed in place
NextPublish ==
    \/ Attach
    \/ publisher.emitted < MaxPublished /\ HookUserPromptSubmit
    \/ publisher.emitted < MaxPublished /\ HookStop
    \/ publisher.emitted < MaxPublished /\ HookSessionEnd
    \/ PublishDone

SpecPublish == Init /\ [][NextPublish]_vars

\* the watcher's "change" event for a log file
FileChanged ==
    /\ \E f \in Files :
          /\ debounce.burst[f] < MaxBurst
          /\ debounce' = debouncedHandleFile(debounce, f)
    /\ UNCHANGED << exists, isWorktree, machineState, status, pendingPermission,
                    isHookDriven, activeTools, activeTasks, taskSignals,
                    compactingSignals, permissionTimers, timers, entries, bytePosition,
                    inflight, overlap, emitted, published, logVars, history, pure,
                    worktree, http, publisher >>

\* a coalescing timeout that is due runs
CoalescingTimerFires ==
    /\ \E t \in debounce.scheduled :
          /\ t.at <= debounce.now
          /\ debounce' = DebounceCallback(debounce, t)
    /\ UNCHANGED << exists, isWorktree, machineState, status, pendingPermission,
                    isHookDriven, activeTools, activeTasks, taskSignals,
                    compactingSignals, permissionTimers, timers, entries, bytePosition,
                    inflight, overlap, emitted, published, logVars, history, pure,
                    worktree, http, publisher >>

\* the clock advances once every timeout that is due has run
Tick ==
    /\ debounce.now < MaxTime
    /\ \A t \in debounce.scheduled : t.at > debounce.now
    /\ debounce' = [debounce EXCEPT !.now = @ + 1]
    /\ UNCHANGED << exists, isWorktree, machineState, status, pendingPermission,
                    isHookDriven, activeTools, activeTasks, taskSignals,
                    compactingSignals, permissionTimers, timers, entries, bytePosition,
                    inflight, overlap, emitted, published, logVars, history, pure,
                    worktree, http, publisher >>

\* the change notifications of the watched log files and their coalescing timers
NextCoalesce ==
    \/ FileChanged
    \/ CoalescingTimerFires
    \/ Tick

SpecCoalesce == Init /\ [][NextCoalesce]_vars

\* the hook endpoint in front of the watcher
SpecHttp == Init /\ [][PostHook]_vars

\* the log endpoint
SpecLogs == Init /\ [][GetLogs]_vars

-----------------------------------------------------------------------------
(* The transition table of the design, row by row: "." is "stay",         *)
(* "stop" is "review if worktree else waiting", "end" is "review if       *)
(* worktree else idle".                                                    *)

TableRow(s) ==
    CASE s = "working" ->
            [WORKING |-> ".", STOP |-> "stop", ENDED |-> "end",
             PERMISSION_REQUEST |-> "needs_approval", TASK_STARTED |-> "tasking",
             TASKS_DONE |-> ".", WORKTREE_DELETED |-> "."]
      [] s = "tasking" ->
            [WORKING |-> ".", STOP |-> "stop", ENDED |-> "end",
             PERMISSION_REQUEST |-> "needs_approval", TASK_STARTED |-> ".",
             TASKS_DONE |-> "working", WORKTREE_DELETED |-> "."]
      [] s = "needs_approval" ->
            [WORKING |-> "working", STOP |-> "stop", ENDED |-> "end",
             PERMISSION_REQUEST |-> ".", TASK_STARTED |-> ".",
             TASKS_DONE |-> ".", WORKTREE_DELETED |-> "."]
      [] s = "waiting" ->
            [WORKING |-> "working", STOP |-> ".", ENDED |-> "end",
             PERMISSION_REQUEST |-> "needs_approval", TASK_STARTED |-> ".",
             TASKS_DONE |-> ".", WORKTREE_DELETED |-> "."]
      [] s = "review" ->
            [WORKING |-> "working", STOP |-> ".", ENDED |-> ".",
             PERMISSION_REQUEST |-> ".", TASK_STARTED |-> ".",
             TASKS_DONE |-> ".", WORKTREE_DELETED |-> "idle"]
      [] s = "idle" ->
            [WORKING |-> "working", STOP |-> ".", ENDED |-> ".",
             PERMISSION_REQUEST |-> ".", TASK_STARTED |-> ".",
             TASKS_DONE |-> ".", WORKTREE_DELETED |-> "."]

TableEntry(s, e, w) ==
    LET cell == TableRow(s)[e]
    IN  CASE cell = "." -> s
          [] cell = "stop" -> IF w THEN "review" ELSE "waiting"
          [] cell = "end" -> IF w THEN "review" ELSE "idle"
          [] OTHER -> cell

\* C1: for every state, every event of the table and both values of isWorktree,
\* transition(state, event, isWorktree) returns the state the table of section 4.1
\* gives (a dot keeps the state; waiting + ENDED is review for a worktree, else idle).
C1_TransitionMatchesTable ==
    (pure.result # None /\ pure.event \in TableEvents)
        => pure.result = TableEntry(pure.state, pure.event, pure.wt)

C1_Witness ==
    /\ pure.state = "waiting" /\ pure.event = "ENDED" /\ ~pure.wt
    /\ pure.result = "idle"

-----------------------------------------------------------------------------
(* The published events and the permission debounce *)

PostToolUseStep(id) == HookPostToolUse(id) \/ HookPostToolUseFailure(id)


\* C2: in every event published for the session, whatever hooks, timer firings, stale
\* checks and log-file changes came before, hasPendingToolUse is true exactly when the
\* machineState is needs_approval, and the published status is then waiting.
C2_PendingIffNeedsApproval ==
    \A i \in 1..Len(emitted) :
        /\ emitted[i].hasPendingToolUse <=> emitted[i].machineState = "needs_approval"
        /\ emitted[i].hasPendingToolUse => emitted[i].status = "waiting"

C2_Witness ==
    /\ entries # << >>
    /\ \E i \in 1..Len(emitted) :
          /\ emitted[i].hasPendingToolUse
          /\ emitted[i].machineState = "needs_approval"

\* C3: once a PermissionRequest for tool-use id X has been followed, with its debounce
\* still pending, by PostToolUse or PostToolUseFailure for X, the debounce is cancelled:
\* until another PermissionRequest arrives no timer is scheduled or fires, the session is
\* not in needs_approval and no event with hasPendingToolUse is published.
C3_CompletedRequestNeverPends ==
    /\ window # "firedAfterCancel"
    /\ window = "cancelled" =>
          /\ timers = {}
          /\ permissionTimers = NoTimer
          /\ machineState # "needs_approval"
          /\ \A i \in 1..Len(emitted) : ~emitted[i].hasPendingToolUse

C3_Witness ==
    /\ window = "cancelled"
    /\ exists
    /\ machineState = "working"
    /\ emitted # << >>

\* C4: while a permission debounce is pending for tool-use id X, handling PostToolUse or
\* PostToolUseFailure for another id Y leaves the debounce timer scheduled, whatever
\* transition or ledger change that handling causes.
C4_SiblingCompletionKeepsDebounce ==
    [][\A y \in ToolIds :
          (/\ \E t \in PendingTimer(World) : t.toolUseId \notin {y, Unknown}
           /\ PostToolUseStep(y))
          => (timers' = timers /\ permissionTimers' = permissionTimers)]_vars

\* C5: while the session is in needs_approval because of a request for tool-use id X,
\* PreToolUse, PostToolUse and PostToolUseFailure for another id leave it in
\* needs_approval with hasPendingToolUse true.
C5_UnrelatedToolKeepsApproval ==
    [][\A y \in ToolIds :
          (/\ machineState = "needs_approval"
           /\ pendingPermission.toolUseId \notin {y, Unknown}
           /\ HookPreToolUse(y) \/ PostToolUseStep(y))
          => (machineState' = "needs_approval" /\ status'.hasPendingToolUse)]_vars

\* C6 as stated: the debounce firing in working puts the session in needs_approval,
\* published waiting with hasPendingToolUse; PostToolUse or PostToolUseFailure for the
\* tool-use id of the pending permission then returns it to working, with
\* hasPendingToolUse false and pendingPermission cleared.
C6_CompletionReturnsToWorking ==
    [][/\ (exists /\ machineState = "working" /\ PermissionTimerFires)
            => /\ machineState' = "needs_approval"
               /\ status' = [status |-> "waiting", hasPendingToolUse |-> TRUE]
       /\ \A x \in ToolIds :
            (/\ machineState = "needs_approval"
             /\ pendingPermission.toolUseId = x
             /\ PostToolUseStep(x))
            => /\ machineState' = "working"
               /\ ~status'.hasPendingToolUse
               /\ pendingPermission' = NoPermission]_vars

\* C6: the debounce firing in working puts the session in needs_approval, published
\* waiting with hasPendingToolUse; PostToolUse or PostToolUseFailure for the tool-use id
\* of the pending permission then publishes working, with hasPendingToolUse false and
\* pendingPermission cleared, and the handler ends in working, or in tasking when the
\* activeTasks list is not empty at its end.
C6_CompletionLeavesApproval ==
    [][/\ (exists /\ machineState = "working" /\ PermissionTimerFires)
            => /\ machineState' = "needs_approval"
               /\ status' = [status |-> "waiting", hasPendingToolUse |-> TRUE]
               /\ pendingPermission' # NoPermission
       /\ \A x \in ToolIds :
            (/\ machineState = "needs_approval"
             /\ pendingPermission.toolUseId = x
             /\ PostToolUseStep(x))
            => /\ emitted' # << >>
               /\ emitted'[1].machineState = "working"
               /\ ~emitted'[1].hasPendingToolUse
               /\ machineState' = IF activeTasks' = {} THEN "working" ELSE "tasking"
               /\ ~status'.hasPendingToolUse
               /\ pendingPermission' = NoPermission]_vars

C6_Witness ==
    /\ window = "fired1"
    /\ machineState = "needs_approval"
    /\ status = [status |-> "waiting", hasPendingToolUse |-> TRUE]
    /\ pendingPermission.toolUseId = "TB"
    /\ activeTasks # {}

\* C7: however many PermissionRequests arrive in one debounce window, at most one
\* permission timer is scheduled at any time, and the burst fires at most once.
C7_OneTimerOneFiring ==
    /\ Cardinality(timers) <= 1
    /\ \A t \in timers : t.tid = permissionTimers
    /\ window # "firedTwice"

C7_Witness ==
    /\ window = "firedN"
    /\ machineState = "needs_approval"
    /\ timers = {}

\* C8: a worktree session enters idle only from review, by the WORKTREE_DELETED of the
\* stale check; no hook (Stop, SessionEnd or any other) takes it to idle from any state.
C8_WorktreeIdleOnlyFromReview ==
    [][(/\ exists /\ exists'
        /\ isWorktree /\ isWorktree'
        /\ machineState # "idle" /\ machineState' = "idle")
       => (machineState = "review" /\ StaleCheck)]_vars

C8_Witness ==
    /\ exists
    /\ isWorktree
    /\ machineState = "idle"

\* C9: a PreToolUse for a Task that finds the session working with no active task leaves
\* it, at the end of that handler, in tasking with the task listed, the last event
\* published carrying status tasking.
C9_FirstTaskPublishesTasking ==
    [][\A id \in TaskIds :
          (machineState = "working" /\ activeTasks = {} /\ HookPreToolUse(id))
          => /\ machineState' = "tasking"
             /\ status'.status = "tasking"
             /\ activeTasks' = {id}
             /\ emitted' # << >>
             /\ emitted'[Len(emitted')].status = "tasking"]_vars

C9_Witness ==
    /\ machineState = "tasking"
    /\ activeTools = << "TK1" >>
    /\ activeTasks = {"TK1"}
    /\ Len(emitted) = 1
    /\ emitted[1].status = "tasking"

\* C10 as stated: in tasking, the completion of a Task that leaves another Task running
\* keeps the session tasking; the completion of the last running Task returns it to
\* working with no active task.
C10_LastTaskReturnsToWorking ==
    [][\A id \in TaskIds :
          (machineState = "tasking" /\ id \in taskSignals /\ PostToolUseStep(id))
          => IF taskSignals \ {id} = {}
             THEN machineState' = "working" /\ activeTasks' = {}
             ELSE machineState' = "tasking" /\ status'.status = "tasking"]_vars

\* C10: in tasking, the completion of a Task that leaves another Task running, or that
\* happens while a compaction is in progress, keeps the session tasking and publishes
\* no other status; the completion of the last running Task with no compaction in progress returns it to working with
\* no active task.
C10_LastTaskEndsTasking ==
    [][\A id \in TaskIds :
          (machineState = "tasking" /\ id \in taskSignals /\ PostToolUseStep(id))
          => IF taskSignals \ {id} = {} /\ ~compactingSignals
             THEN /\ machineState' = "working"
                  /\ status'.status = "working"
                  /\ activeTasks' = {}
             ELSE /\ machineState' = "tasking"
                  /\ status'.status = "tasking"
                  /\ activeTasks' # {}
                  /\ \A i \in 1..Len(emitted') : emitted'[i].status = "tasking"]_vars

C10_Witness ==
    /\ machineState = "working"
    /\ window = "none"
    /\ taskSignals = {}
    /\ activeTasks = {}
    /\ activeTools = << "TB" >>
    /\ Len(emitted) = 1
    /\ emitted[1].type = "updated"
    /\ emitted[1].machineState = "working"

-----------------------------------------------------------------------------
(* Registry invariants *)

\* C11: in every reachable state of a registered session, machineState = tasking
\* implies that the session's activeTasks list is not empty (it holds the running
\* Task tools and the synthetic compacting task) or a compaction is in progress.
C11_TaskingHasTasks ==
    (exists /\ machineState = "tasking") => (activeTasks # {} \/ compactingSignals)

C11_Witness ==
    /\ exists
    /\ machineState = "tasking"
    /\ ~isHookDriven
    /\ taskSignals = {}
    /\ activeTasks = {LogTaskId}
    /\ entries = << "prompt", "task_use" >>

\* C12: in every reachable state of a registered session, machineState = needs_approval
\* implies that pendingPermission is set, to the request whose debounce fired.
C12_NeedsApprovalHasPermission ==
    (exists /\ machineState = "needs_approval") => pendingPermission # NoPermission

C12_Witness ==
    /\ exists
    /\ machineState = "needs_approval"
    /\ pendingPermission = [toolName |-> "Task", toolUseId |-> "TK1"]
    /\ entries # << >>

\* C13: in every reachable state of a registered session, pendingPermission being set
\* implies machineState = needs_approval, whatever the state in which the debounce fired.
C13_PermissionOnlyInNeedsApproval ==
    (exists /\ pendingPermission # NoPermission) => machineState = "needs_approval"

-----------------------------------------------------------------------------
(* Published events *)

\* the handler of this step committed a change of machineState to a session that stays
\* registered, without ending on an update event that carries the new state
ChangeLost ==
    /\ exists /\ exists'
    /\ machineState' # machineState
    /\ \/ emitted' = << >>
       \/ LET e == emitted'[Len(emitted')]
          IN  e.type # "updated" \/ e.machineState # machineState'
                                \/ e.status # status'.status
                                \/ e.hasPendingToolUse # status'.hasPendingToolUse

\* the handler of this step emitted two update events in a row that carry the same
\* session, field for field
ChangeReportedTwice ==
    \E i \in 1..(Len(emitted') - 1) :
        /\ emitted'[i].type = "updated"
        /\ emitted'[i + 1] = emitted'[i]

\* C14: every change of machineState committed to the registry ends with an update
\* event carrying the new published status, and no handler reports one change by two
\* update events.
C14_OneUpdatePerChange == [][~ChangeLost /\ ~ChangeReportedTwice]_vars

\* the change-detection fields of the session are the same after the step as before
\* (gitBranch and todoProgress are not held in the state)
SnapshotUnchanged ==
    /\ status' = status
    /\ MessageCount(entries') <= MessageCount(entries)
    /\ activeTasks' = activeTasks
    /\ activeTools' = activeTools

UpdateEmitted == \E i \in 1..Len(emitted') : emitted'[i].type = "updated"

\* C15: for a session that stays registered, a handler other than the end of a
\* handleFile call (hook, timer, stale check) emits an update event exactly when it
\* changes a change-detection field: published status, hasPendingToolUse, a greater
\* messageCount, or a ledger.
C15_UpdateIffChange ==
    [][(exists /\ exists' /\ inflight' = inflight) => (UpdateEmitted <=> ~SnapshotUnchanged)]_vars

\* C16: the first event published for a session is a created event: while the log
\* file has never been unlinked, a handler that finds the session unregistered emits
\* nothing before the created event.
C16_CreatedComesFirst ==
    [][(~exists /\ fileState # "gone" /\ emitted' # << >>)
          => emitted'[1].type = "created"]_vars

\* C17: over the lifetime of a session, from its created event to its deleted event,
\* no update event carries a messageCount smaller than the event published before it.
C17_MessageCountNeverDecreases ==
    [][\A i \in 1..Len(emitted') :
          emitted'[i].type = "updated"
          => emitted'[i].messageCount >= LastPublished(published, SubSeq(emitted', 1, i - 1))]_vars

-----------------------------------------------------------------------------
(* Log tail offset *)

\* C18: while a session stays registered, the stored bytePosition never decreases,
\* handleFile calls that overlap included.
C18_BytePositionNeverDecreases ==
    [][(exists /\ exists') => bytePosition' >= bytePosition]_vars

-----------------------------------------------------------------------------
(* Removal *)

Unlinked == fileState = "present" /\ fileState' = "gone"

\* C19: a registered session leaves the registry only in the step that unlinks its log
\* file: no hook, timer firing or stale check removes it, and UserPromptSubmit on a
\* session in idle or review finds it registered and takes it back to work.
C19_RemovedOnlyByUnlink ==
    [][/\ (exists /\ ~exists') => Unlinked
       /\ (exists /\ machineState \in {"idle", "review"} /\ HookUserPromptSubmit)
             => (exists' /\ machineState' \in {"working", "tasking"})]_vars

C19_Witness ==
    /\ exists
    /\ machineState = "idle"
    /\ fileState = "present"
    /\ Len(emitted) = 1
    /\ emitted[1].type = "updated"
    /\ emitted[1].status = "idle"

\* C20: the unlink of the log file of a registered session emits exactly one event, a
\* deleted event carrying the session as it was; the unlink of a file with no
\* registered session emits nothing; no other step emits a deleted event.
C20_OneDeletedPerRemoval ==
    [][/\ Unlinked =>
            IF exists
            THEN /\ ~exists'
                 /\ emitted' = Emit(World, "deleted").emitted
            ELSE emitted' = << >>
       /\ (\E i \in 1..Len(emitted') : emitted'[i].type = "deleted") => (Unlinked /\ exists)]_vars

C20_Witness ==
    /\ ~exists
    /\ fileState = "gone"
    /\ Len(emitted) = 1
    /\ emitted[1].type = "deleted"
    /\ emitted[1].messageCount > 0

-----------------------------------------------------------------------------
(* Turn lifecycle: Stop, SessionEnd and the stale check *)

\* the SessionEnd hook carrying the given reason
SessionEndStep(reason) ==
    /\ exists
    /\ Handle(OnSessionEnd(World, reason))
    /\ UNCHANGED << logVars, history >>
    /\ KeepPure

\* the handler published one event, of that type, for that state, nothing pending
PublishedOnce(type, state) ==
    /\ Len(emitted') = 1
    /\ emitted'[1].type = type
    /\ emitted'[1].machineState = state
    /\ emitted'[1].status = state
    /\ ~emitted'[1].hasPendingToolUse

PromptCreatesWorking ==
    (~exists /\ HookUserPromptSubmit /\ ~isWorktree')
        => (exists' /\ machineState' = "working" /\ PublishedOnce("created", "working"))

StopEndsTurn ==
    (exists /\ ~isWorktree /\ machineState = "working" /\ HookStop)
        => (machineState' = "waiting" /\ PublishedOnce("updated", "waiting"))

ReachesIdle ==
    /\ exists /\ exists'
    /\ ~isWorktree
    /\ machineState # "idle"
    /\ machineState' = "idle"

EndsActiveTurn ==
    machineState \in {"working", "tasking", "needs_approval"} /\ HookSessionEnd

Settled(w) == [w EXCEPT !.emitted = << >>, !.audit = << >>, !.ret = FALSE]

\* C23: a Stop hook received in waiting changes neither the machine state nor the
\* published status, writes no transition line and publishes no event, and a further
\* Stop leaves the session exactly as the first one left it.
C23_StopInWaitingIsIdempotent ==
    [][(exists /\ machineState = "waiting" /\ HookStop)
          => /\ machineState' = "waiting"
             /\ status' = status
             /\ emitted' = << >>
             /\ OnStop(World).audit = << >>
             /\ Settled(OnStop(Settled(OnStop(World)))) = Settled(OnStop(World))]_vars

C23_Witness ==
    /\ exists
    /\ machineState = "waiting"
    /\ status = machineStateToPublishedStatus("waiting")
    /\ window \in {"open1", "openN"}
    /\ timers = {}
    /\ emitted = << >>

\* C24: a worktree session goes from working to review on Stop and stays in review on
\* SessionEnd; a stale-check pass over a session in review moves it to idle exactly
\* when its worktree directory is no longer there; and with the periodic check running,
\* a session in review whose worktree was deleted does not stay in review: it becomes
\* idle, unless a prompt resumes it first.
C24_ReviewUntilWorktreeDeleted ==
    /\ [][/\ (exists /\ isWorktree /\ machineState = "working" /\ HookStop)
               => machineState' = "review"
          /\ (exists /\ machineState = "review" /\ HookSessionEnd)
               => (machineState' = "review" /\ emitted' = << >>)
          /\ (exists /\ machineState = "review" /\ StaleCheckPass)
               => /\ machineState' \in {"review", "idle"}
                  /\ machineState' = "idle" <=> worktree = "deleted"
          /\ (exists /\ machineState = "review" /\ machineState' # "review")
               => (StaleCheckPass \/ HookUserPromptSubmit)]_vars
    /\ (exists /\ machineState = "review" /\ worktree = "deleted")
          ~> (machineState = "idle" \/ machineState = "working" \/ machineState = "tasking")

C24_Witness ==
    /\ exists
    /\ isWorktree
    /\ worktree = "deleted"
    /\ machineState = "idle"
    /\ Len(emitted) = 1
    /\ emitted[1].type = "updated"
    /\ emitted[1].status = "idle"

\* one pass of the stale check with the given readings of lastActivityAt and of the
\* worktree directory
StaleCheckWith(old, reachable) ==
    /\ Handle(checkStaleSessions(World, old, reachable))
    /\ UNCHANGED << logVars, history >>
    /\ KeepPure

\* C25: a stale-check pass over a working session whose lastActivityAt is older than
\* the threshold fires STOP, writing the line working -> waiting (review for a
\* worktree), and leaves the session there (or in idle, when the same pass finds the
\* worktree of the session deleted), whether or not hooks were received for it.
C25_StaleWorkingIsStopped ==
    [][\A reachable \in BOOLEAN :
          (exists /\ machineState = "working" /\ StaleCheckWith(TRUE, reachable))
             => /\ checkStaleSessions(World, TRUE, reachable).audit # << >>
                /\ checkStaleSessions(World, TRUE, reachable).audit[1]
                      = [from |-> "working", to |-> StopTarget(isWorktree)]
                /\ \/ machineState' = StopTarget(isWorktree)
                   \/ isWorktree /\ ~reachable /\ machineState' = "idle"]_vars

\* C26: a stale-check pass over a session in tasking, needs_approval, waiting or idle
\* leaves its machine state and published status as they are, publishes nothing and
\* writes no transition line, however old lastActivityAt is.
C26_StaleCheckSparesTasking ==
    [][\A old \in BOOLEAN : \A reachable \in BOOLEAN :
          (exists /\ machineState \in {"tasking", "needs_approval", "waiting", "idle"}
              /\ StaleCheckWith(old, reachable))
             => /\ machineState' = machineState
                /\ status' = status
                /\ emitted' = << >>
                /\ checkStaleSessions(World, old, reachable).audit = << >>]_vars

C26_Witness ==
    /\ exists
    /\ machineState = "tasking"
    /\ ~isHookDriven
    /\ activeTasks = {LogTaskId}
    /\ emitted = << >>

-----------------------------------------------------------------------------
(* The HTTP endpoints *)

sessionVars == << exists, isWorktree, machineState, status, pendingPermission,
                  isHookDriven, activeTools, activeTasks, taskSignals,
                  compactingSignals, permissionTimers, timers, entries, bytePosition,
                  inflight, emitted, published >>

Malformed(r) ==
    \/ ~r.json
    \/ r.hook_event_name = Missing
    \/ r.session_id = MissingId
    \/ r.hook_event_name \notin HookEventNames

WellFormed(r) ==
    /\ r.json
    /\ r.hook_event_name \in HookEventNames
    /\ SESSION_ID_RE(r.session_id)

C28_BadSessionIdRejected ==
    /\ (http.kind = "hook" /\ ~SESSION_ID_RE(http.session_id))
          => (http.code = 400 /\ ~http.dispatched /\ http.file = NoFile)
    /\ (http.kind = "hook" /\ http.file # NoFile) => InsideLogsDir(http.file)

HasUnsafeChar(id) == \E i \in 1..Len(id) : id[i] \in {"/", "\\", ".", "nul"}

\* C29: a request on /logs/<id> whose id holds '/', '\', '.' or a NUL byte is answered
\* with a status other than 200 and reaches no file; a file is reached only for an id
\* matching [A-Za-z0-9_-]+, and that file lies in the session-logs directory.
C29_LogsPathSafety ==
    http.kind = "logs" =>
       /\ HasUnsafeChar(http.session_id) => (http.code # 200 /\ http.file = NoFile)
       /\ http.file # NoFile =>
             (SESSION_ID_RE(http.session_id) /\ InsideLogsDir(http.file))

C29_Witness ==
    /\ http.kind = "logs"
    /\ http.method = "GET"
    /\ http.session_id = << ".", "." >>
    /\ http.readable
    /\ http.code = 400
    /\ http.file = NoFile

-----------------------------------------------------------------------------
(* Log-file changes of a registered session *)

\* the i-th suspended handleFile call runs to its end
FinishOf(i) ==
    \E meta \in BOOLEAN : \E wt \in BOOLEAN : \E old \in BOOLEAN :
       \E branchChanged \in BOOLEAN :
          Commit(handleFileStore([World EXCEPT !.inflight = RemoveAt(@, i)],
                                 inflight[i], meta, wt, old, branchChanged))

\* C30: a handleFile call that found the session registered and finishes leaves its
\* machine state, its pending permission and its published status and
\* hasPendingToolUse as they are, whether or not a hook was received for the session
\* and whatever entries the call has read.
C30_LogChangeKeepsMachineState ==
    [][\A i \in 1..Len(inflight) :
          (inflight[i].existing = "live" /\ FinishOf(i))
             => /\ machineState' = machineState
                /\ pendingPermission' = pendingPermission
                /\ status' = status]_vars

-----------------------------------------------------------------------------
(* Sessions registered from their log file *)

\* C31: a handleFile call that registers a session no hook has created (the session
\* was absent when the call began and is absent when it stores) creates it with
\* machineState waiting and publishes it as waiting with hasPendingToolUse false,
\* whatever entries the log holds and however old they are.
C31_LogCreatedSessionIsWaiting ==
    [][\A i \in 1..Len(inflight) :
          (~exists /\ inflight[i].existing = "none" /\ FinishOf(i) /\ exists')
             => /\ machineState' = "waiting"
                /\ status' = [status |-> "waiting", hasPendingToolUse |-> FALSE]
                /\ emitted'[Len(emitted')].status.status = "waiting"]_vars

-----------------------------------------------------------------------------
(* Publication *)

\* C32: the events of the session are appended to the stream in the order the watcher
\* emitted them, and every appended snapshot carries the status and hasPendingToolUse
\* the session had when its event was emitted, in whatever order the summarizer calls
\* of the publishSession calls return.
C32_StreamInEmissionOrder ==
    /\ \A i \in 1..Len(publisher.stream) : \A j \in 1..Len(publisher.stream) :
          i < j => publisher.stream[i].seq < publisher.stream[j].seq
    /\ \A i \in 1..Len(publisher.stream) :
          /\ publisher.stream[i].status = publisher.stream[i].emittedStatus
          /\ publisher.stream[i].hasPendingToolUse = publisher.stream[i].emittedPending

-----------------------------------------------------------------------------
(* Cancelling the permission debounce *)

ActiveStates == {"working", "tasking", "needs_approval"}

NoDebouncePending(ts, tid) == ts = {} /\ tid = NoTimer

-----------------------------------------------------------------------------
(* Permission requests without a tool-use id *)

\* the timeout a PermissionRequest for that tool name, without tool-use id, schedules
ScheduledFor(name) ==
    LET w == SchedulePermission(World, name, Unknown)
    IN  CHOOSE t \in w.timers : t.tid = w.permissionTimers

IsYoungestOfName(id, name) ==
    \E i \in 1..Len(activeTools) :
       /\ activeTools[i] = id
       /\ ToolName(id) = name
       /\ \A j \in 1..Len(activeTools) : ToolName(activeTools[j]) = name => j <= i

\* the id is that of an active tool, of a running task or of the pending permission
InLedgers(id) ==
    \/ \E i \in 1..Len(activeTools) : activeTools[i] = id
    \/ pendingPermission.toolUseId = id
    \/ id \in taskSignals
    \/ id \in activeTasks

UnknownDebouncePending == \E t \in PendingTimer(World) : t.toolUseId = Unknown

ResolvesToYoungest ==
    \A name \in ToolNames :
       LET t == ScheduledFor(name)
       IN  /\ t.toolName = name
           /\ IF \E id \in ToolIds : IsYoungestOfName(id, name)
              THEN IsYoungestOfName(t.toolUseId, name)
              ELSE t.toolUseId = Unknown

UnknownDebounceCancelledByAny ==
    \A id \in ToolIds :
       (exists /\ UnknownDebouncePending /\ PostToolUseStep(id))
          => NoDebouncePending(timers', permissionTimers')

AbsentIdChangesNothing ==
    \A id \in ToolIds :
       (exists /\ ~InLedgers(id) /\ ~UnknownDebouncePending /\ PostToolUseStep(id))
          => /\ machineState' = machineState
             /\ activeTools' = activeTools
             /\ activeTasks' = activeTasks
             /\ taskSignals' = taskSignals

\* C34: a PermissionRequest without tool-use id schedules a debounce resolved to the
\* most recently started active tool of its tool name, or to unknown when there is
\* none; a debounce resolved to unknown is cancelled by any PostToolUse or
\* PostToolUseFailure; otherwise a PostToolUse or PostToolUseFailure for a tool-use id
\* that is in no ledger changes neither the machine state nor the ledgers.
C34_UnknownIdResolution ==
    /\ [](exists => ResolvesToYoungest)
    /\ [][UnknownDebounceCancelledByAny]_vars
    /\ [][AbsentIdChangesNothing]_vars

-----------------------------------------------------------------------------
(* Coalescing of change notifications *)

TimeoutsOf(d, f) == {t \in d.scheduled : t.file = f}

FilePart(d, f) ==
    << d.timers[f], TimeoutsOf(d, f), d.reads[f], d.last[f], d.burst[f], d.served[f] >>

\* C35: a log file has at most one coalescing timeout outstanding, the one set by its
\* latest change notification and due one delay after it; a tail read of the file
\* starts only when that timeout runs, one delay after the last notification, and is
\* the one read for all the notifications since the previous read; a notification or
\* a timeout of one file leaves the timers and reads of every other file as they are.
C35_OneReadPerBurst ==
    /\ [](\A f \in Files :
            /\ Cardinality(TimeoutsOf(debounce, f)) <= 1
            /\ debounce.burst[f] = 0 => TimeoutsOf(debounce, f) = {}
            /\ debounce.burst[f] >= 1 =>
                  TimeoutsOf(debounce, f)
                     = {[file |-> f, at |-> debounce.last[f] + debounceMs]}
            /\ \A t \in TimeoutsOf(debounce, f) : t.at >= debounce.now)
    /\ [][\A f \in Files :
            debounce'.reads[f] # debounce.reads[f] =>
               /\ debounce'.reads[f] = debounce.reads[f] + 1
               /\ debounce.burst[f] >= 1
               /\ debounce'.served[f] = debounce.burst[f]
               /\ debounce.now = debounce.last[f] + debounceMs
               /\ TimeoutsOf(debounce', f) = {}]_vars
    /\ [][\A f \in Files : \A g \in Files \ {f} :
            FilePart(debounce', f) # FilePart(debounce, f)
               => FilePart(debounce', g) = FilePart(debounce, g)]_vars

C35_Witness ==
    /\ debounce.reads["F1"] = 1
    /\ debounce.served["F1"] = 3
    /\ debounce.last["F1"] = 2
    /\ debounce.now = 4
    /\ debounce.burst["F2"] = 1
    /\ debounce.reads["F2"] = 0

-----------------------------------------------------------------------------
(* Working and the task list *)

\* C36: once a handler has run to its end, a session in working has an empty
\* activeTasks list: landing on working with tasks outstanding, and adding to
\* activeTasks while in working, both end in tasking within the same handler.
C36_WorkingHasNoTasks ==
    (exists /\ machineState = "working") => activeTasks = {}

-----------------------------------------------------------------------------
(* Transitions and tail reads in flight *)

\* the reconcile at the end of handleFile, which goes through transitionSession
Reconciled(from, to) ==
    \/ from = "working" /\ to = "tasking"
    \/ from = "tasking" /\ to = "working"

\* C37: a handleFile call that finishes for a session whose state was set by hooks
\* stores a registry entry with the machine state and the pending permission the
\* session has when the call finishes (tasking and working apart, which the call
\* reconciles with the task list), whenever the call began and whatever calls
\* overlap it.
C37_TailReadKeepsTransition ==
    [][\A i \in 1..Len(inflight) :
          (exists /\ isHookDriven /\ FinishOf(i) /\ exists')
             => /\ machineState' = machineState \/ Reconciled(machineState, machineState')
                /\ pendingPermission' = pendingPermission]_vars

-----------------------------------------------------------------------------
(* After the deleted event *)

\* the handler leaves the session out of the registry and emits nothing, or its first
\* event is the created event of a new registration
AbsentOrCreated ==
    \/ ~exists' /\ emitted' = << >>
    \/ emitted' # << >> /\ emitted'[1].type = "created"

\* C38: while the session is out of the registry after its deleted event, a handleFile
\* call that was in flight at the unlink and a permission timeout that was pending
\* emit no updated event and do not register the session again, unless the handler's
\* first event is a created event.
C38_NoUpdateAfterDeleted ==
    /\ [][\A i \in 1..Len(inflight) :
             (~exists /\ inflight[i].existing = "stale" /\ FinishOf(i))
                => AbsentOrCreated]_vars
    /\ [][(~exists /\ PermissionTimerFires) => AbsentOrCreated]_vars

====
